---- MODULE Spec2Model ----
(***************************************************************************)
(* A model of the command pipeline of local-ansible-runner:                *)
(*   - VpnQueryForm (src/unnamed/part_000): the VPN handlers and the file  *)
(*     disambiguator pickMostPossibleFile;                                 *)
(*   - CommandsController.execute of the spotify service, with the        *)
(*     retry-once wrapper runFunctionWithRetry.                            *)
(* Strings are sequences of one-character strings, so that normalisation,  *)
(* lower-casing, joining and substring search are computed as the code     *)
(* computes them.                                                          *)
(***************************************************************************)
EXTENDS Integers, Sequences, FiniteSets, TLC

(***************************************************************************)
(* Bounds of the model.                                                    *)
(***************************************************************************)
MaxFiles == 3

MaxTokens == 3

(***************************************************************************)
(* String helpers (JavaScript String / Array methods).                     *)
(***************************************************************************)
NULL == <<"null">>

LowerOf(c) ==
    CASE c = "F" -> "f"
      [] c = "P" -> "p"
      [] c = "V" -> "v"
      [] c = "S" -> "s"
      [] OTHER -> c

\* String.prototype.toLowerCase
ToLowerCase(s) == [i \in 1..Len(s) |-> LowerOf(s[i])]

\* the regular-expression class \s (the white space of the model's alphabet)
IsSpace(c) == c \in {" ", "\t"}

\* the regular-expression class \w: letters, digits and the underscore
IsWord(c) == c \notin {" ", "\t", ".", "-", "\"", "{", "}", ":", ",", "\\"}

\* String.prototype.includes
Includes(s, sub) ==
    \E i \in 0..(Len(s) - Len(sub)) : SubSeq(s, i + 1, i + Len(sub)) = sub

RECURSIVE Join(_, _)
\* Array.prototype.join
Join(list, sep) ==
    IF list = <<>> THEN <<>>
    ELSE IF Len(list) = 1 THEN list[1]
    ELSE list[1] \o sep \o Join(Tail(list), sep)

\* .replace(/[^\w\s]|_/g, "")
StripPunct(s) == SelectSeq(s, LAMBDA c : (IsWord(c) \/ IsSpace(c)) /\ c # "_")

RECURSIVE DropSpaces(_)
DropSpaces(s) ==
    IF s # <<>> /\ IsSpace(Head(s)) THEN DropSpaces(Tail(s)) ELSE s

RECURSIVE CollapseSpaces(_)
\* .replace(/\s+/g, " ")
CollapseSpaces(s) ==
    IF s = <<>> THEN <<>>
    ELSE IF IsSpace(Head(s)) THEN <<" ">> \o CollapseSpaces(DropSpaces(Tail(s)))
    ELSE <<Head(s)>> \o CollapseSpaces(Tail(s))

\* the normalisation of a candidate inside pickMostPossibleFile
Normalize(vpnFile) == CollapseSpaces(StripPunct(vpnFile))

RECURSIVE FirstIndexFrom(_, _, _)
FirstIndexFrom(list, x, i) ==
    IF i > Len(list) THEN 0
    ELSE IF list[i] = x THEN i
    ELSE FirstIndexFrom(list, x, i + 1)

\* Array.prototype.indexOf, 1-based; 0 stands for JavaScript's -1
IndexOf(list, x) == FirstIndexFrom(list, x, 1)

\* vpnFilePath.split(".")[0]: the text before the first "."
SplitFirst(s) ==
    LET dot == IndexOf(s, ".")
    IN  IF dot = 0 THEN s ELSE SubSeq(s, 1, dot - 1)

(***************************************************************************)
(* The strings of the model.                                               *)
(***************************************************************************)
vpn_france_paris_ovpn == <<"v","p","n","_","f","r","a","n","c","e","_","p","a","r","i","s",".","o","v","p","n">>

vpn_france_lyon_ovpn == <<"v","p","n","_","f","r","a","n","c","e","_","l","y","o","n",".","o","v","p","n">>

us_new_york_ovpn == <<"u","s"," "," ","n","e","w","-","y","o","r","k",".","o","v","p","n">>

us_new_jersey_ovpn == <<"u","s"," ","n","e","w"," ","j","e","r","s","e","y",".","o","v","p","n">>

tok_vpn == <<"v","p","n">>

tok_start == <<"s","t","a","r","t">>

tok_stop == <<"s","t","o","p">>

tok_status == <<"s","t","a","t","u","s">>

tok_France == <<"F","r","a","n","c","e">>

tok_Paris == <<"P","a","r","i","s">>

tok_paris == <<"p","a","r","i","s">>

tok_us == <<"u","s">>

tok_new == <<"n","e","w">>

tok_jersey == <<"j","e","r","s","e","y">>

\* candidate file names and token texts the narrowing is exercised on
NarrowFileNames ==
    {vpn_france_paris_ovpn, vpn_france_lyon_ovpn, us_new_york_ovpn, us_new_jersey_ovpn}

NarrowTokenTexts == {tok_paris, tok_us, tok_new, tok_jersey}

\* the sequences over S of length at most n
SeqsUpTo(S, n) == UNION {[1..k -> S] : k \in 0..n}

\* the sequences without repetition: a directory listing names each file once
ListingsUpTo(S, n) ==
    {l \in SeqsUpTo(S, n) : \A i, j \in 1..Len(l) : i # j => l[i] # l[j]}

(***************************************************************************)
(* pickMostPossibleFile (the Resource Disambiguator, "narrow").            *)
(***************************************************************************)
AppendToken_Reset(possibleLocation, token) == <<token>>

\* possibleLocation = [...possibleLocation, token]
AppendToken(possibleLocation, token) == Append(possibleLocation, token)

JoinPhrase_NoSeparator(possibleLocation) == Join(possibleLocation, <<>>)

\* possibleLocation.join(" ")
JoinPhrase(possibleLocation) == Join(possibleLocation, <<" ">>)

\* vpnFiles.filter(...): always over the full candidate list
FilterFiles(vpnFiles, possibleLocation) ==
    SelectSeq(vpnFiles,
              LAMBDA vpnFile : Includes(Normalize(vpnFile), JoinPhrase(possibleLocation)))

NarrowStep_NoEmptyCheck(files, filteredFiles) ==
    IF Len(filteredFiles) < Len(files) THEN filteredFiles ELSE files

\* if (filteredFiles.length && filteredFiles.length < files.length) files = filteredFiles
NarrowStep(files, filteredFiles) ==
    IF Len(filteredFiles) # 0 /\ Len(filteredFiles) < Len(files)
    THEN filteredFiles
    ELSE files

RECURSIVE PickLoop(_, _, _, _)
\* the for loop, from the token after position i, with working set files
PickLoop(vpnFiles, tokens, i, files) ==
    IF i >= Len(tokens) THEN files
    ELSE PickLoop(vpnFiles, tokens, i + 1,
                  NarrowStep(files,
                             FilterFiles(vpnFiles, SubSeq(tokens, 1, i + 1))))

VARIABLES
    \* pickMostPossibleFile, run on its own
    nVpnFiles,          \* the argument vpnFiles
    nTokens,            \* the argument tokens
    nIdx,               \* the number of tokens the loop has consumed
    possibleLocation,   \* the local possibleLocation
    files,              \* the local files (the working set)
    nPc,                \* "idle" | "entry" | "loop" | "returned"
    \* one utterance through the VPN form
    utterance,          \* the tokens of the utterance
    action,             \* the actionType of the matched action, or NULL
    location,           \* the value of the COUNTRY prop of the action, or NULL
    handlerTokens,      \* the argument tokens of the handler
    dirCalls,           \* the number of calls of filesService.getDirFiles
    lookup,             \* the outcome of getDirFiles: none, pending, returned, failed
    dirFiles,           \* what getDirFiles returned
    startVpnFiles,      \* startVpnHandler's vpnFiles: what getLocationVpnFiles returned
    tokensAfterLocation,\* the token list given to pickMostPossibleFile
    connCalls,          \* the number of calls of rabbitService.createConnection
    connState,          \* "none" | "opening" | "open" | "failed"
    sent,               \* the calls of sendToChannelWithResponse: [channel, payload]
    vPc,                \* the position of the pipeline
    \* one request through CommandsController.execute
    reqName,            \* req.body.name
    reqDeviceType,      \* req.body.args?.deviceType
    reqValue,           \* req.body.props?.[0]?.value
    listedDevices,      \* what spotifyService.getDevices returned
    device,             \* the target device: <<>> for null, or <<d>>
    attempts,           \* the number of runs of the action (handleAction)
    recoveries,         \* the number of runs of the recovery (refreshAccess)
    events,             \* the starts and ends of the action and the recovery
    lastError,          \* the message of the error of the last failed attempt
    spotifyCalls,       \* the calls of spotifyService made by handleAction
    logged,             \* the messages given to loggerService.error
    responses,          \* the HTTP responses sent: [status, message]
    ePc                 \* the position of execute

\* two interleaved runs of startVpnHandler, each a function of the run
VARIABLES
    cLocation,          \* the value of the COUNTRY prop of the run's action
    cTokens,            \* the argument tokens of the run
    cDirFiles,          \* what getDirFiles returned to the run
    cVpnFiles,          \* the run's local vpnFiles
    cListed,            \* the runs in the order their listings returned
    cFileName,          \* the run's local vpnFileName
    cConn,              \* the connection handle of rabbitService: "none" | "open"
    cConnCalls,         \* the number of calls of rabbitService.createConnection
    cSent,              \* the calls of sendToChannelWithResponse: [run, channel, payload]
    cPc                 \* the position of each run

\* the smart-devices worker, each a function of the message, and one dispatch
VARIABLES
    wMsg,               \* the messages: [name, replyTo, correlationId]
    wPc,                \* "absent" | "queued" | "calling" | "replied" | "crashed"
    wCalls,             \* the calls of yeelightService made for the message
    wWarned,            \* the texts given to loggerService.warn for the message
    wReplies,           \* the channel.sendToQueue calls made for the message
    wLast,              \* the message the consumer callback was last called with
    dPc,                \* the position of the dispatch that awaits the response
    dResponse           \* the response the dispatch resolved with, or <<>>

\* one run of StreamsService.openUrl
VARIABLES
    sLink,              \* the argument url, as its parts
    sCommands,          \* the commands given to discoveryClientService.invokeAction
    sChecks,            \* the responses to the power_state commands
    sDeeplink,          \* the local deeplink
    sProvider,          \* the local provider
    sHttp,              \* the urls given to httpClientService.get
    sLogged,            \* the texts given to loggerService.error
    sError,             \* the message of the error openUrl rejected with
    sPc                 \* the position of openUrl

nvars == <<nVpnFiles, nTokens, nIdx, possibleLocation, files, nPc>>

vvars == <<utterance, action, location, handlerTokens, dirFiles, dirCalls, lookup,
           startVpnFiles,
           tokensAfterLocation, connCalls, connState, sent, vPc>>

evars == <<reqName, reqDeviceType, reqValue, listedDevices, device, attempts, recoveries, events,
           lastError, spotifyCalls, logged, responses, ePc>>

cvars == <<cLocation, cTokens, cDirFiles, cVpnFiles, cListed, cFileName, cConn,
           cConnCalls, cSent, cPc>>

wvars == <<wMsg, wPc, wCalls, wWarned, wReplies, wLast>>

dvars == <<dPc, dResponse>>

svars == <<sLink, sCommands, sChecks, sDeeplink, sProvider, sHttp, sLogged, sError, sPc>>

\* the state of the other components, for the actions of the first three
xvars == <<cvars, wvars, dvars, svars>>

\* the state of the other components, for the actions of the interleaved runs
cRest == <<nvars, vvars, evars, wvars, dvars, svars>>

\* the state of the other components, for the actions of the worker
wRest == <<nvars, vvars, evars, cvars, svars>>

\* the state of the other components, for the actions of openUrl
sRest == <<nvars, vvars, evars, cvars, wvars, dvars>>

vars == <<nvars, vvars, evars, xvars>>

\* the two runs
Runs == {1, 2}

ConcIdle ==
    /\ cLocation = [r \in Runs |-> NULL]
    /\ cTokens = [r \in Runs |-> <<>>]
    /\ cDirFiles = [r \in Runs |-> <<>>]
    /\ cVpnFiles = [r \in Runs |-> <<>>]
    /\ cListed = <<>>
    /\ cFileName = [r \in Runs |-> NULL]
    /\ cConn = "none"
    /\ cConnCalls = 0
    /\ cSent = <<>>
    /\ cPc = [r \in Runs |-> "idle"]

MaxMsgs == 2

\* the messages of the worker's queue
Msgs == 1..MaxMsgs

\* no message
NoMsg == [name |-> "undefined", replyTo |-> "undefined", correlationId |-> <<>>]

WorkerIdle ==
    /\ wMsg = [m \in Msgs |-> NoMsg]
    /\ wPc = [m \in Msgs |-> "absent"]
    /\ wCalls = [m \in Msgs |-> <<>>]
    /\ wWarned = [m \in Msgs |-> <<>>]
    /\ wReplies = [m \in Msgs |-> <<>>]
    /\ wLast = 0

DispatchIdle ==
    /\ dPc = "idle"
    /\ dResponse = <<>>

StreamsIdle ==
    /\ sLink = <<>>
    /\ sCommands = <<>>
    /\ sChecks = <<>>
    /\ sDeeplink = <<>>
    /\ sProvider = "undefined"
    /\ sHttp = <<>>
    /\ sLogged = <<>>
    /\ sError = "undefined"
    /\ sPc = "idle"

\* the other components are not running
OthersIdle == ConcIdle /\ WorkerIdle /\ DispatchIdle /\ StreamsIdle

NarrowIdle ==
    /\ nVpnFiles = <<>>
    /\ nTokens = <<>>
    /\ nIdx = 0
    /\ possibleLocation = <<>>
    /\ files = <<>>
    /\ nPc = "idle"

VpnIdle ==
    /\ utterance = <<>>
    /\ action = NULL
    /\ location = NULL
    /\ handlerTokens = <<>>
    /\ dirFiles = <<>>
    /\ dirCalls = 0
    /\ lookup = "none"
    /\ startVpnFiles = <<>>
    /\ tokensAfterLocation = <<>>
    /\ connCalls = 0
    /\ connState = "none"
    /\ sent = <<>>
    /\ vPc = "idle"

ExecIdle ==
    /\ reqName = "undefined"
    /\ reqDeviceType = "undefined"
    /\ reqValue = "undefined"
    /\ listedDevices = <<>>
    /\ device = <<>>
    /\ attempts = 0
    /\ recoveries = 0
    /\ events = <<>>
    /\ lastError = "undefined"
    /\ spotifyCalls = <<>>
    /\ logged = <<>>
    /\ responses = <<>>
    /\ ePc = "idle"

InitNarrow ==
    /\ nVpnFiles \in ListingsUpTo(NarrowFileNames, MaxFiles)
    /\ nTokens \in SeqsUpTo(NarrowTokenTexts, MaxTokens)
    /\ nIdx = 0
    /\ possibleLocation = <<>>
    /\ files = <<>>
    /\ nPc = "entry"
    /\ VpnIdle
    /\ ExecIdle
    /\ OthersIdle

NarrowShortcut_ReturnsElement ==
    /\ nPc = "entry"
    /\ Len(nVpnFiles) = 1
    /\ files' = nVpnFiles[1]
    /\ nPc' = "returned"
    /\ UNCHANGED <<nVpnFiles, nTokens, nIdx, possibleLocation, vvars, evars, xvars>>

\* if (vpnFiles.length === 1) return vpnFiles
NarrowShortcut ==
    /\ nPc = "entry"
    /\ Len(nVpnFiles) = 1
    /\ files' = nVpnFiles
    /\ nPc' = "returned"
    /\ UNCHANGED <<nVpnFiles, nTokens, nIdx, possibleLocation, vvars, evars, xvars>>

\* let possibleLocation = []; let files = [...vpnFiles]
NarrowEnter ==
    /\ nPc = "entry"
    /\ Len(nVpnFiles) # 1
    /\ possibleLocation' = <<>>
    /\ files' = nVpnFiles
    /\ nPc' = "loop"
    /\ UNCHANGED <<nVpnFiles, nTokens, nIdx, vvars, evars, xvars>>

\* one iteration of for (const token of tokens)
NarrowToken ==
    /\ nPc = "loop"
    /\ nIdx < Len(nTokens)
    /\ nIdx' = nIdx + 1
    /\ possibleLocation' = AppendToken(possibleLocation, nTokens[nIdx + 1])
    /\ files' = NarrowStep(files, FilterFiles(nVpnFiles, possibleLocation'))
    /\ UNCHANGED <<nVpnFiles, nTokens, nPc, vvars, evars, xvars>>

\* return files
NarrowReturn ==
    /\ nPc = "loop"
    /\ nIdx = Len(nTokens)
    /\ nPc' = "returned"
    /\ UNCHANGED <<nVpnFiles, nTokens, nIdx, possibleLocation, files, vvars, evars, xvars>>

NextNarrow ==
    \/ NarrowShortcut
    \/ NarrowEnter
    \/ NarrowToken
    \/ NarrowReturn

SpecNarrow == InitNarrow /\ [][NextNarrow]_vars

\* pickMostPossibleFile as a function of its arguments
PickMostPossibleFile(vpnFiles, tokens) ==
    IF Len(vpnFiles) = 1 THEN vpnFiles
    ELSE PickLoop(vpnFiles, tokens, 0, vpnFiles)

(***************************************************************************)
(* Properties of pickMostPossibleFile.                                     *)
(***************************************************************************)
Range(s) == {s[i] : i \in 1..Len(s)}

RECURSIVE IsSubList(_, _)
\* a is b with some elements left out, the order kept
IsSubList(a, b) ==
    IF a = <<>> THEN TRUE
    ELSE IF b = <<>> THEN FALSE
    ELSE IF Head(a) = Head(b) THEN IsSubList(Tail(a), Tail(b))
    ELSE IsSubList(a, Tail(b))

\* the candidate's normalized text contains the first k tokens joined by single spaces
ContainsPrefix(vpnFile, tokens, k) ==
    Includes(CollapseSpaces(StripPunct(vpnFile)), Join(SubSeq(tokens, 1, k), <<" ">>))

CandidatesWithPrefix(vpnFiles, tokens, k) ==
    SelectSeq(vpnFiles, LAMBDA vpnFile : ContainsPrefix(vpnFile, tokens, k))

\* the length of the longest token prefix some candidate contains; 0 when there is none
LongestMatchedPrefix(vpnFiles, tokens) ==
    LET K == {k \in 1..Len(tokens) : CandidatesWithPrefix(vpnFiles, tokens, k) # <<>>}
    IN  IF K = {} THEN 0 ELSE CHOOSE k \in K : \A j \in K : j <= k

ExpectedNarrow(vpnFiles, tokens) ==
    LET k == LongestMatchedPrefix(vpnFiles, tokens)
    IN  IF k = 0 THEN vpnFiles ELSE CandidatesWithPrefix(vpnFiles, tokens, k)

\* C2: the size of the working set of pickMostPossibleFile never increases from
\* one token to the next, and the working set (and so the returned list) is
\* empty only if the candidate list given to it was empty.
NarrowingMonotonicity ==
    /\ [][nPc = "loop" => Len(files') <= Len(files)]_vars
    /\ [](nPc \in {"loop", "returned"} /\ files = <<>> => nVpnFiles = <<>>)

\* C2 witness: three candidates were narrowed to one over three tokens
NarrowingMonotonicityWitness ==
    /\ nPc = "returned"
    /\ Len(nVpnFiles) = 3
    /\ Len(files) = 1
    /\ nIdx = 3

\* C4: for a candidate list of at least two entries, once the loop has consumed
\* the longest token prefix that some candidate contains, the working set is
\* exactly the candidates containing that prefix (all candidates when no prefix
\* is contained in any), and it stays so for every later token up to the
\* return; when exactly one candidate contains the first token, the result is
\* that single candidate.
LongestMatchedPrefixResult ==
    /\ (/\ nPc \in {"loop", "returned"}
        /\ Len(nVpnFiles) >= 2
        /\ nIdx >= LongestMatchedPrefix(nVpnFiles, nTokens))
       => files = ExpectedNarrow(nVpnFiles, nTokens)
    /\ (/\ nPc = "returned"
        /\ Len(nVpnFiles) >= 2
        /\ nTokens # <<>>
        /\ Len(CandidatesWithPrefix(nVpnFiles, nTokens, 1)) = 1)
       => files = CandidatesWithPrefix(nVpnFiles, nTokens, 1)

\* C4 witness: the longest matched prefix has two tokens, a third token follows
\* it, and the result is the one candidate containing the two-token phrase
LongestMatchedPrefixWitness ==
    /\ nPc = "returned"
    /\ Len(nVpnFiles) = 3
    /\ Len(nTokens) = 3
    /\ LongestMatchedPrefix(nVpnFiles, nTokens) = 2
    /\ Len(CandidatesWithPrefix(nVpnFiles, nTokens, 1)) = 2
    /\ Len(files) = 1

\* C10: after every token the working set is a subset of the working set before
\* it; a token whose filter (over the original candidates) is empty or not
\* smaller than the working set leaves the working set unchanged; and the
\* returned list is a sub-list of the input candidates in their original order.
NarrowingAsSets ==
    /\ [][(nPc = "loop" /\ nIdx' = nIdx + 1) =>
            /\ Range(files') \subseteq Range(files)
            /\ LET filtered == CandidatesWithPrefix(nVpnFiles, nTokens, nIdx')
               IN  (Len(filtered) = 0 \/ Len(filtered) >= Len(files)) => files' = files]_vars
    /\ [](nPc = "returned" => IsSubList(files, nVpnFiles))

\* C10 witness: a first token shrank the working set from three to two and the
\* filter of the last token was empty
NarrowingAsSetsWitness ==
    /\ nPc = "returned"
    /\ Len(nVpnFiles) = 3
    /\ Len(nTokens) >= 2
    /\ Len(CandidatesWithPrefix(nVpnFiles, nTokens, 1)) = 2
    /\ CandidatesWithPrefix(nVpnFiles, nTokens, Len(nTokens)) = <<>>
    /\ Len(files) = 2

\* C13: for every token sequence, pickMostPossibleFile applied to a candidate
\* list of length 0 or 1 returns a list equal to that candidate list: the one
\* candidate whatever the tokens are, and the empty list for no candidate.
SingleCandidateShortcut ==
    (nPc = "returned" /\ Len(nVpnFiles) <= 1) =>
        /\ files = nVpnFiles
        /\ PickMostPossibleFile(nVpnFiles, nTokens) = nVpnFiles

\* C13 witness: one candidate is returned although no token is part of its name
SingleCandidateShortcutWitness ==
    /\ nPc = "returned"
    /\ nVpnFiles = <<vpn_france_lyon_ovpn>>
    /\ nTokens = <<tok_us, tok_new, tok_jersey>>
    /\ files = <<vpn_france_lyon_ovpn>>

(***************************************************************************)
(* The VPN form: registry, matching and slot resolution, and the handlers  *)
(* startVpnHandler, stopVpnHandler and vpnStatusHandler.                   *)
(***************************************************************************)
MaxUtterance == 4

MaxDirFiles == 2

VpnStart == <<"V","p","n","S","t","a","r","t">>

VpnStop == <<"V","p","n","S","t","o","p">>

VpnStatus == <<"V","p","n","S","t","a","t","u","s">>

\* the words an utterance is made of, and the file names of the VPN folder
UtteranceWords ==
    {tok_vpn, tok_start, tok_stop, tok_status, tok_France, tok_Paris, tok_paris}

DirFileNames == {vpn_france_paris_ovpn, vpn_france_lyon_ovpn, us_new_jersey_ovpn}

\* the tokens of type TokenTypes.COUNTRY
Countries == {tok_France}

TokenType(token) == IF token \in Countries THEN "COUNTRY" ELSE "FREE_TEXT"

\* configService.get
ConfigGet(key) ==
    CASE key = "Rabbit.AnsibleQueueName" -> "AMQP_ANSIBLE_QUEUE_NAME"
      [] key = "VPN.FolderFilesPath" -> "VPN_FILES_PATH"
      [] OTHER -> "undefined"

GlobalKeywords == {tok_vpn}

VpnStartProps_NoQuestion ==
    <<[name |-> "VPN location", type |-> "COUNTRY", value |-> NULL,
       clarifyingQuestion |-> NULL]>>

\* the props of the VpnStart action; a text is kept whole, as a 1-tuple
VpnStartProps ==
    <<[name |-> "VPN location", type |-> "COUNTRY", value |-> NULL,
       clarifyingQuestion |-> <<"In which country turn on VPN?">>]>>

\* the actions of the form, in registration order
Actions ==
    <<[actionType |-> VpnStart, keywords |-> {tok_start}, props |-> VpnStartProps],
      [actionType |-> VpnStop, keywords |-> {tok_stop}, props |-> <<>>],
      [actionType |-> VpnStatus, keywords |-> {tok_status}, props |-> <<>>]>>

ActionOfType(actionType) == CHOOSE a \in Range(Actions) : a.actionType = actionType

\* the matcher: the number of tokens that are keywords of the action
Score(a, tokens) == Cardinality({i \in 1..Len(tokens) : tokens[i] \in a.keywords})

\* the matcher: the index of the matched action, 0 for no match
Match(tokens) ==
    IF ~\E i \in 1..Len(tokens) : tokens[i] \in GlobalKeywords THEN 0
    ELSE LET best == CHOOSE n \in 0..Len(tokens) :
                         /\ \E i \in 1..Len(Actions) : Score(Actions[i], tokens) = n
                         /\ \A i \in 1..Len(Actions) : Score(Actions[i], tokens) <= n
         IN  IF best = 0 THEN 0
             ELSE CHOOSE i \in 1..Len(Actions) :
                      /\ Score(Actions[i], tokens) = best
                      /\ \A j \in 1..(i - 1) : Score(Actions[j], tokens) < best

RECURSIVE FirstOfTypeFrom(_, _, _)
FirstOfTypeFrom(tokens, type, i) ==
    IF i > Len(tokens) THEN 0
    ELSE IF TokenType(tokens[i]) = type THEN i
    ELSE FirstOfTypeFrom(tokens, type, i + 1)

\* the slot resolver: the position of the first token of the type, 0 for none
FirstOfType(tokens, type) == FirstOfTypeFrom(tokens, type, 1)

\* Array.prototype.slice(start), start counted from 0 and negative from the end
SliceFrom(list, start) ==
    LET len == Len(list)
        from == IF start < 0
                THEN (IF len + start < 0 THEN 0 ELSE len + start)
                ELSE (IF start > len THEN len ELSE start)
    IN  SubSeq(list, from + 1, len)

\* action.getPropByType(TokenTypes.COUNTRY)?.value ... tokens.slice(tokens.indexOf(location))
TokensAfterLocation(tokens, loc) == SliceFrom(tokens, IndexOf(tokens, loc) - 1)

\* files.filter((name) => name.toLowerCase().includes(location.toLowerCase()))
GetLocationVpnFiles(dir, loc) ==
    SelectSeq(dir, LAMBDA name : Includes(ToLowerCase(name), ToLowerCase(loc)))

RECURSIVE JsonEscape(_)
JsonEscape(s) ==
    IF s = <<>> THEN <<>>
    ELSE (CASE Head(s) = "\t" -> <<"\\", "t">>
            [] Head(s) = "\"" -> <<"\\", "\"">>
            [] Head(s) = "\\" -> <<"\\", "\\">>
            [] OTHER -> <<Head(s)>>) \o JsonEscape(Tail(s))

\* JSON.stringify of a string
JsonString(s) == <<"\"">> \o JsonEscape(s) \o <<"\"">>

\* JSON.stringify({ name, props: { vpnFileName } })
JsonStartPayload(name, vpnFileName) ==
    <<"{","\"","n","a","m","e","\"",":">> \o JsonString(name)
    \o <<",","\"","p","r","o","p","s","\"",":","{">>
    \o <<"\"","v","p","n","F","i","l","e","N","a","m","e","\"",":">> \o JsonString(vpnFileName)
    \o <<"}","}">>

\* JSON.stringify({ name, props: {} })
JsonPayload(name) ==
    <<"{","\"","n","a","m","e","\"",":">> \o JsonString(name)
    \o <<",","\"","p","r","o","p","s","\"",":","{">> \o <<"}","}">>

\* const [vpnFilePath] = this.pickMostPossibleFile(...); const [vpnFileName] = vpnFilePath.split(".")
VpnFileName == SplitFirst(PickMostPossibleFile(startVpnFiles, tokensAfterLocation)[1])

InitVpn ==
    /\ NarrowIdle
    /\ ExecIdle
    /\ OthersIdle
    /\ utterance \in SeqsUpTo(UtteranceWords, MaxUtterance)
    /\ action = NULL
    /\ location = NULL
    /\ handlerTokens = <<>>
    /\ dirFiles = <<>>
    /\ dirCalls = 0
    /\ lookup = "none"
    /\ startVpnFiles = <<>>
    /\ tokensAfterLocation = <<>>
    /\ connCalls = 0
    /\ connState = "none"
    /\ sent = <<>>
    /\ vPc = "match"

\* the Command Matcher: the best-scoring action of the form
MatchUtterance ==
    /\ vPc = "match"
    /\ IF Match(utterance) = 0
       THEN /\ vPc' = "nomatch"
            /\ UNCHANGED action
       ELSE /\ action' = Actions[Match(utterance)].actionType
            /\ vPc' = "resolve"
    /\ UNCHANGED <<utterance, location, handlerTokens, dirFiles, dirCalls, lookup,
                   startVpnFiles,
                   tokensAfterLocation, connCalls, connState, sent, nvars, evars, xvars>>

\* the Slot Resolver: binds the first token of the prop's type; an unbound prop
\* with a clarifying question halts with the question
ResolveSlots ==
    /\ vPc = "resolve"
    /\ LET props == ActionOfType(action).props
           at == IF props = <<>> THEN 0 ELSE FirstOfType(utterance, props[1].type)
       IN  IF props # <<>> /\ at = 0 /\ props[1].clarifyingQuestion # NULL
           THEN /\ vPc' = "clarify"
                /\ UNCHANGED <<location, handlerTokens>>
           ELSE /\ location' = IF at = 0 THEN NULL ELSE utterance[at]
                /\ handlerTokens' = utterance
                /\ vPc' = "handler"
    /\ UNCHANGED <<utterance, action, dirFiles, dirCalls, lookup, startVpnFiles,
                   tokensAfterLocation,
                   connCalls, connState, sent, nvars, evars, xvars>>

\* a follow-up utterance answers the clarifying question; the handler is given
\* the tokens of the first utterance or those of the follow-up
FollowUp ==
    /\ vPc = "clarify"
    /\ \E c \in Countries :
          /\ location' = c
          /\ handlerTokens' \in {utterance, <<c>>}
    /\ vPc' = "handler"
    /\ UNCHANGED <<utterance, action, dirFiles, dirCalls, lookup, startVpnFiles,
                   tokensAfterLocation,
                   connCalls, connState, sent, nvars, evars, xvars>>

\* startVpnHandler up to the call of filesService.getDirFiles
StartVpnHandler ==
    /\ vPc = "handler"
    /\ action = VpnStart
    /\ dirCalls' = dirCalls + 1
    /\ lookup' = "pending"
    /\ vPc' = "listing"
    /\ UNCHANGED <<utterance, action, location, handlerTokens, dirFiles, startVpnFiles,
                   tokensAfterLocation, connCalls, connState, sent, nvars, evars, xvars>>

\* getDirFiles returns and getLocationVpnFiles filters the names by the location;
\* location.toLowerCase() throws for a missing location once a name is looked at
GetDirFilesReturns ==
    /\ vPc = "listing"
    /\ \E dir \in ListingsUpTo(DirFileNames, MaxDirFiles) :
          /\ dirFiles' = dir
          /\ lookup' = "returned"
          /\ IF location = NULL /\ dir # <<>>
             THEN /\ vPc' = "failed"
                  /\ UNCHANGED startVpnFiles
             ELSE /\ startVpnFiles' = (IF dir = <<>> THEN <<>>
                                  ELSE GetLocationVpnFiles(dir, location))
                  /\ vPc' = "pick"
    /\ UNCHANGED <<utterance, action, location, handlerTokens, dirCalls, tokensAfterLocation,
                   connCalls, connState, sent, nvars, evars, xvars>>

GetDirFilesFails_Retries ==
    /\ vPc = "listing"
    /\ dirCalls' = dirCalls + 1
    /\ UNCHANGED <<utterance, action, location, handlerTokens, dirFiles, lookup,
                   startVpnFiles, tokensAfterLocation, connCalls, connState, sent, vPc,
                   nvars, evars, xvars>>

\* getDirFiles fails: the handler ends with that error
GetDirFilesFails ==
    /\ vPc = "listing"
    /\ lookup' = "failed"
    /\ vPc' = "failed"
    /\ UNCHANGED <<utterance, action, location, handlerTokens, dirFiles, dirCalls,
                   startVpnFiles,
                   tokensAfterLocation, connCalls, connState, sent, nvars, evars, xvars>>

\* startVpnHandler from the slice to the call of createConnection; with no
\* candidate left vpnFilePath is undefined and vpnFilePath.split throws
StartVpnPick ==
    /\ vPc = "pick"
    /\ tokensAfterLocation' = TokensAfterLocation(handlerTokens, location)
    /\ IF PickMostPossibleFile(startVpnFiles, tokensAfterLocation') = <<>>
       THEN /\ vPc' = "failed"
            /\ UNCHANGED <<connCalls, connState>>
       ELSE /\ connCalls' = connCalls + 1
            /\ connState' = "opening"
            /\ vPc' = "connecting"
    /\ UNCHANGED <<utterance, action, location, handlerTokens, dirFiles, dirCalls, lookup,
                   startVpnFiles,
                   sent, nvars, evars, xvars>>

\* startVpnHandler after createConnection: sendToChannelWithResponse
StartVpnSend ==
    /\ vPc = "connecting"
    /\ action = VpnStart
    /\ connState' = "open"
    /\ sent' = Append(sent, [channel |-> ConfigGet("Rabbit.AnsibleQueueName"),
                             payload |-> JsonStartPayload(VpnStart, VpnFileName)])
    /\ vPc' = "awaiting"
    /\ UNCHANGED <<utterance, action, location, handlerTokens, dirFiles, dirCalls, lookup,
                   startVpnFiles,
                   tokensAfterLocation, connCalls, nvars, evars, xvars>>

StopVpnHandler_SendBeforeOpen ==
    /\ vPc = "handler"
    /\ action = VpnStop
    /\ connCalls' = connCalls + 1
    /\ connState' = "opening"
    /\ sent' = Append(sent, [channel |-> ConfigGet("Rabbit.AnsibleQueueName"),
                             payload |-> JsonPayload(VpnStop)])
    /\ vPc' = "awaiting"
    /\ UNCHANGED <<utterance, action, location, handlerTokens, dirFiles, dirCalls, lookup,
                   startVpnFiles,
                   tokensAfterLocation, nvars, evars, xvars>>

\* stopVpnHandler up to the call of createConnection
StopVpnHandler ==
    /\ vPc = "handler"
    /\ action = VpnStop
    /\ connCalls' = connCalls + 1
    /\ connState' = "opening"
    /\ vPc' = "connecting"
    /\ UNCHANGED <<utterance, action, location, handlerTokens, dirFiles, dirCalls, lookup,
                   startVpnFiles,
                   tokensAfterLocation, sent, nvars, evars, xvars>>

\* stopVpnHandler after createConnection: sendToChannelWithResponse
StopVpnSend ==
    /\ vPc = "connecting"
    /\ action = VpnStop
    /\ connState' = "open"
    /\ sent' = Append(sent, [channel |-> ConfigGet("Rabbit.AnsibleQueueName"),
                             payload |-> JsonPayload(VpnStop)])
    /\ vPc' = "awaiting"
    /\ UNCHANGED <<utterance, action, location, handlerTokens, dirFiles, dirCalls, lookup,
                   startVpnFiles,
                   tokensAfterLocation, connCalls, nvars, evars, xvars>>

\* vpnStatusHandler up to the call of createConnection
VpnStatusHandler ==
    /\ vPc = "handler"
    /\ action = VpnStatus
    /\ connCalls' = connCalls + 1
    /\ connState' = "opening"
    /\ vPc' = "connecting"
    /\ UNCHANGED <<utterance, action, location, handlerTokens, dirFiles, dirCalls, lookup,
                   startVpnFiles,
                   tokensAfterLocation, sent, nvars, evars, xvars>>

\* vpnStatusHandler after createConnection: sendToChannelWithResponse
VpnStatusSend ==
    /\ vPc = "connecting"
    /\ action = VpnStatus
    /\ connState' = "open"
    /\ sent' = Append(sent, [channel |-> ConfigGet("Rabbit.AnsibleQueueName"),
                             payload |-> JsonPayload(VpnStatus)])
    /\ vPc' = "awaiting"
    /\ UNCHANGED <<utterance, action, location, handlerTokens, dirFiles, dirCalls, lookup,
                   startVpnFiles,
                   tokensAfterLocation, connCalls, nvars, evars, xvars>>

\* createConnection fails: the awaiting handler ends with that error
CreateConnectionFails ==
    /\ vPc = "connecting"
    /\ connState' = "failed"
    /\ vPc' = "failed"
    /\ UNCHANGED <<utterance, action, location, handlerTokens, dirFiles, dirCalls, lookup,
                   startVpnFiles,
                   tokensAfterLocation, connCalls, sent, nvars, evars, xvars>>

\* sendToChannelWithResponse resolves with the response: the handler returns it
ResponseArrives ==
    /\ vPc = "awaiting"
    /\ vPc' = "done"
    /\ UNCHANGED <<utterance, action, location, handlerTokens, dirFiles, dirCalls, lookup,
                   startVpnFiles,
                   tokensAfterLocation, connCalls, connState, sent, nvars, evars, xvars>>

\* sendToChannelWithResponse rejects: the handler ends with that error
SendFails ==
    /\ vPc = "awaiting"
    /\ vPc' = "failed"
    /\ UNCHANGED <<utterance, action, location, handlerTokens, dirFiles, dirCalls, lookup,
                   startVpnFiles,
                   tokensAfterLocation, connCalls, connState, sent, nvars, evars, xvars>>

NextVpn ==
    \/ MatchUtterance
    \/ ResolveSlots
    \/ FollowUp
    \/ StartVpnHandler
    \/ GetDirFilesReturns
    \/ GetDirFilesFails
    \/ StartVpnPick
    \/ StartVpnSend
    \/ StopVpnHandler
    \/ StopVpnSend
    \/ VpnStatusHandler
    \/ VpnStatusSend
    \/ CreateConnectionFails
    \/ ResponseArrives
    \/ SendFails

SpecVpn == InitVpn /\ [][NextVpn]_vars

(***************************************************************************)
(* Properties of the VPN handlers.                                         *)
(***************************************************************************)
ExpectedParisPayload == <<"{","\"","n","a","m","e","\"",":","\"","V","p","n","S","t","a","r","t","\"",",","\"","p","r","o","p","s","\"",":","{","\"","v","p","n","F","i","l","e","N","a","m","e","\"",":","\"","v","p","n","_","f","r","a","n","c","e","_","p","a","r","i","s","\"","}","}">>

\* the scenario of the end-to-end example
ParisScenario ==
    /\ utterance = <<tok_vpn, tok_start, tok_France, tok_Paris>>
    /\ handlerTokens = utterance
    /\ action = VpnStart
    /\ location = tok_France
    /\ dirFiles \in {<<vpn_france_paris_ovpn, vpn_france_lyon_ovpn>>,
                     <<vpn_france_lyon_ovpn, vpn_france_paris_ovpn>>}

\* C3 (as claimed): in the end-to-end scenario, with the two files listed in
\* either order, startVpnHandler narrows with the token "Paris" and the one
\* message it sends to the Ansible channel names vpn_france_paris.
EndToEndVpnStart ==
    (ParisScenario /\ vPc \in {"awaiting", "done"}) =>
        sent = <<[channel |-> "AMQP_ANSIBLE_QUEUE_NAME", payload |-> ExpectedParisPayload]>>

\* the tokens of the list positioned at or after the first token equal to the
\* location; none when the location is no element of the list
TokensAtOrAfter(tokens, loc) ==
    IF IndexOf(tokens, loc) = 0 THEN <<>>
    ELSE SubSeq(tokens, IndexOf(tokens, loc), Len(tokens))

pastPick == vPc \in {"connecting", "awaiting", "done"} /\ action = VpnStart

\* C5 (as claimed): the token list startVpnHandler gives to pickMostPossibleFile
\* holds only tokens positioned at or after the location token, in their
\* order, also when the location is no element of the handler's token list.
DisambiguatorTokensAfterSlot ==
    pastPick => IsSubList(tokensAfterLocation, TokensAtOrAfter(handlerTokens, location))

\* C6: while the COUNTRY prop of a matched VpnStart action is unresolved, the
\* pipeline is not in the handler or the dispatch stage, no broker connection
\* has been opened and no message has been sent.
ClarificationHalts ==
    (action = VpnStart /\ location = NULL) =>
        /\ vPc \in {"resolve", "clarify"}
        /\ connCalls = 0
        /\ connState = "none"
        /\ sent = <<>>

\* C6 witness: the pipeline waits for the answer to the clarifying question
ClarificationHaltsWitness ==
    /\ vPc = "clarify"
    /\ action = VpnStart
    /\ location = NULL
    /\ Len(utterance) = 4

handlerEnded == vPc \in {"done", "failed"}

\* C9 (as claimed): every run of a handler calls createConnection exactly once.
EveryRunConnectsOnce ==
    (handlerEnded /\ action \in {VpnStart, VpnStop, VpnStatus}) => connCalls = 1

\* C9 (as amended): each run of stopVpnHandler and vpnStatusHandler, and each run
\* of startVpnHandler whose lookup yields a file, calls createConnection exactly
\* once, and only after that call has completed calls sendToChannelWithResponse,
\* at least once and at most twice, on the channel Rabbit.AnsibleQueueName; no
\* message is sent before the connection-open step has completed, none if it
\* fails; a run of startVpnHandler whose lookup fails or yields no file calls
\* neither.
DispatchSideEffects ==
    /\ connCalls <= 1
    /\ (action \in {VpnStop, VpnStatus} /\ vPc \in {"connecting", "awaiting", "done", "failed"})
          => connCalls = 1
    /\ (action = VpnStart /\ vPc \in {"connecting", "awaiting", "done"}) => connCalls = 1
    /\ (action = VpnStart /\ vPc = "failed" /\ connState = "none")
          => (connCalls = 0 /\ sent = <<>>)
    /\ (action = VpnStart /\ connCalls = 1)
          => PickMostPossibleFile(startVpnFiles, tokensAfterLocation) # <<>>
    /\ sent # <<>> => (connCalls = 1 /\ connState = "open")
    /\ connState = "open" => Len(sent) \in 1..2
    /\ connState \in {"none", "opening", "failed"} => sent = <<>>
    /\ \A i \in 1..Len(sent) : sent[i].channel = "AMQP_ANSIBLE_QUEUE_NAME"

\* C9 witness: a startVpnHandler run has opened the connection, sent its one
\* message and received the response
DispatchSideEffectsWitness ==
    /\ vPc = "done"
    /\ action = VpnStart
    /\ connCalls = 1
    /\ connState = "open"
    /\ Len(sent) = 1

\* the lookup of a startVpnHandler run has failed: getDirFiles failed, or it
\* returned and no listed name contains the location
lookupFailed ==
    /\ action = VpnStart
    /\ \/ lookup = "failed"
       \/ lookup = "returned" /\ startVpnFiles = <<>>

\* C11: when getDirFiles fails, or no listed file name contains the location,
\* startVpnHandler ends in an error: from then on the run is at the failing
\* statement or has failed, it never returns a response, it has called
\* createConnection and sendToChannelWithResponse not once, and getDirFiles
\* exactly once; its next step, if any, is the error.
LookupFailureTerminal ==
    /\ [](lookupFailed =>
            /\ vPc \in {"pick", "failed"}
            /\ lookup = "failed" => vPc = "failed"
            /\ connCalls = 0
            /\ connState = "none"
            /\ sent = <<>>
            /\ dirCalls = 1)
    /\ [][lookupFailed => (lookupFailed' /\ vPc' = "failed" /\ dirCalls' = 1)]_vars

\* C11 witness: the listing returned names, none of them contains the location,
\* and the run has ended in the error
LookupFailureTerminalWitness ==
    /\ action = VpnStart
    /\ lookup = "returned"
    /\ dirFiles # <<>>
    /\ startVpnFiles = <<>>
    /\ location # NULL
    /\ vPc = "failed"

(***************************************************************************)
(* CommandsController.execute of the spotify service, with the retry-once  *)
(* wrapper runFunctionWithRetry(action, recovery).                         *)
(***************************************************************************)
MaxDevices == 2

DefaultDeviceType == "TV"

\* an absent value: undefined or null
NoValue == "undefined"

\* the action names handleAction has a case for
KnownActions ==
    {"Resume", "Pause", "NextTrack", "PrevTrack", "RestartTack", "PlayPlaylist",
     "EnableShuffle", "DisableShuffle", "ChangePlayback"}

\* the devices spotifyService.getDevices may list
DeviceUniverse ==
    {[id |-> "tv1", type |-> "TV", is_active |-> FALSE],
     [id |-> "tv2", type |-> "TV", is_active |-> TRUE],
     [id |-> "sp1", type |-> "Speaker", is_active |-> TRUE],
     [id |-> "sp2", type |-> "Speaker", is_active |-> FALSE],
     [id |-> NoValue, type |-> "TV", is_active |-> TRUE],
     [id |-> NoValue, type |-> "Speaker", is_active |-> FALSE]}

\* Array.prototype.find(...) ?? null, for the predicate "is in matching":
\* <<>> for null, or <<d>> for the first such element
Find(list, matching) ==
    LET at == {i \in 1..Len(list) : list[i] \in matching}
    IN  IF at = {} THEN <<>>
        ELSE <<list[CHOOSE i \in at : \A j \in at : i <= j]>>

\* getTargetDevice, given what getDevices returned
GetTargetDevice(devices, deviceType) ==
    IF deviceType # NoValue
    THEN Find(devices, {d \in Range(devices) : d.type = deviceType})
    ELSE LET activeDevice == Find(devices, {d \in Range(devices) : d.is_active})
         IN  IF activeDevice # <<>> THEN activeDevice
             ELSE Find(devices, {d \in Range(devices) : d.type = DefaultDeviceType})

\* the call of spotifyService that handleAction makes for the name
SpotifyCall(name, deviceId, value) ==
    CASE name = "Resume" -> [method |-> "resume", args |-> <<deviceId>>]
      [] name = "Pause" -> [method |-> "pause", args |-> <<deviceId>>]
      [] name = "NextTrack" -> [method |-> "nextTrack", args |-> <<deviceId>>]
      [] name = "PrevTrack" -> [method |-> "prevTrack", args |-> <<deviceId>>]
      [] name = "RestartTack" -> [method |-> "seekTrack", args |-> <<"0", deviceId>>]
      [] name = "PlayPlaylist" -> [method |-> "play", args |-> <<deviceId, value>>]
      [] name = "EnableShuffle" -> [method |-> "setShuffle", args |-> <<deviceId, "true">>]
      [] name = "DisableShuffle" -> [method |-> "setShuffle", args |-> <<deviceId, "false">>]
      [] name = "ChangePlayback" -> [method |-> "changePlaybackDevice", args |-> <<deviceId>>]

\* handleAction up to its first await: the call it makes; none for a device
\* without an id and none for an unknown name, for which it throws
HandleActionCalls(name, deviceId, value) ==
    IF deviceId # NoValue /\ name \in KnownActions
    THEN <<SpotifyCall(name, deviceId, value)>>
    ELSE <<>>

\* the message of the error handleAction throws before any call, NoValue if none
HandleActionThrows(name, deviceId) ==
    IF deviceId = NoValue THEN "No active device found"
    ELSE IF name \notin KnownActions THEN "Unknown action type: " \o name
    ELSE NoValue

NoUsableDevice_IgnoresId(dev) == dev = <<>>

\* if (!device || !device.id)
NoUsableDevice(dev) == dev = <<>> \/ dev[1].id = NoValue

RetryAfterFailure_Always(attemptNo) == TRUE

\* runFunctionWithRetry: a failed attempt is followed by the recovery and one more
\* attempt only if it was the first
RetryAfterFailure(attemptNo) == attemptNo = 1

InitExec ==
    /\ NarrowIdle
    /\ VpnIdle
    /\ OthersIdle
    /\ reqName \in KnownActions \cup {"Unknown"}
    /\ reqDeviceType \in {NoValue, "TV", "Speaker"}
    /\ reqValue \in {NoValue, "playlist"}
    /\ listedDevices = <<>>
    /\ device = <<>>
    /\ attempts = 0
    /\ recoveries = 0
    /\ events = <<>>
    /\ lastError = NoValue
    /\ spotifyCalls = <<>>
    /\ logged = <<>>
    /\ responses = <<>>
    /\ ePc = "getDevices"

\* getDevices returns: the target device is chosen; without a device with an id
\* execute responds 500, otherwise runFunctionWithRetry starts the first attempt
GetDevicesReturns ==
    /\ ePc = "getDevices"
    /\ \E devices \in SeqsUpTo(DeviceUniverse, MaxDevices) :
          /\ listedDevices' = devices
          /\ device' = GetTargetDevice(devices, reqDeviceType)
          /\ IF NoUsableDevice(device')
             THEN /\ responses' = Append(responses,
                                         [status |-> 500, message |-> "No active device found"])
                  /\ ePc' = "responded"
                  /\ UNCHANGED <<attempts, events, spotifyCalls>>
             ELSE /\ attempts' = 1
                  /\ events' = Append(events, "attempt")
                  /\ spotifyCalls' = spotifyCalls
                                     \o HandleActionCalls(reqName, device'[1].id, reqValue)
                  /\ ePc' = "attempt"
                  /\ UNCHANGED responses
    /\ UNCHANGED <<reqName, reqDeviceType, reqValue, recoveries, lastError, logged,
                   nvars, vvars, xvars>>

\* getDevices fails: the error leaves execute, which sends no response
GetDevicesFails ==
    /\ ePc = "getDevices"
    /\ ePc' = "rejected"
    /\ UNCHANGED <<reqName, reqDeviceType, reqValue, listedDevices, device, attempts, recoveries,
                   events, lastError, spotifyCalls, logged, responses, nvars, vvars, xvars>>

\* the spotifyService call of handleAction resolves: the attempt succeeded,
\* runFunctionWithRetry returns and execute responds 200
ActionSucceeds ==
    /\ ePc = "attempt"
    /\ HandleActionThrows(reqName, device[1].id) = NoValue
    /\ events' = Append(events, "ok")
    /\ responses' = Append(responses, [status |-> 200, message |-> "OK"])
    /\ ePc' = "responded"
    /\ UNCHANGED <<reqName, reqDeviceType, reqValue, listedDevices, device, attempts, recoveries,
                   lastError, spotifyCalls, logged, nvars, vvars, xvars>>

\* the attempt fails: the spotifyService call rejects, or handleAction throws for
\* an unknown name. runFunctionWithRetry starts the recovery after a first
\* failure; otherwise the error reaches the catch of execute: logged, 500
ActionFails ==
    /\ ePc = "attempt"
    /\ lastError' = IF HandleActionThrows(reqName, device[1].id) = NoValue
                    THEN "spotify request failed"
                    ELSE HandleActionThrows(reqName, device[1].id)
    /\ IF RetryAfterFailure(attempts)
       THEN /\ events' = events \o <<"fail", "recovery">>
            /\ recoveries' = recoveries + 1
            /\ ePc' = "recovery"
            /\ UNCHANGED <<logged, responses>>
       ELSE /\ events' = Append(events, "fail")
            /\ logged' = Append(logged, lastError')
            /\ responses' = Append(responses, [status |-> 500, message |-> lastError'])
            /\ ePc' = "responded"
            /\ UNCHANGED recoveries
    /\ UNCHANGED <<reqName, reqDeviceType, reqValue, listedDevices, device, attempts, spotifyCalls,
                   nvars, vvars, xvars>>

\* the recovery (spotifyService.refreshAccess) returns: runFunctionWithRetry runs
\* the action once more
RecoveryReturns ==
    /\ ePc = "recovery"
    /\ events' = events \o <<"recovered", "attempt">>
    /\ attempts' = attempts + 1
    /\ spotifyCalls' = spotifyCalls \o HandleActionCalls(reqName, device[1].id, reqValue)
    /\ ePc' = "attempt"
    /\ UNCHANGED <<reqName, reqDeviceType, reqValue, listedDevices, device, recoveries, lastError,
                   logged, responses, nvars, vvars, xvars>>

NextExec ==
    \/ GetDevicesReturns
    \/ GetDevicesFails
    \/ ActionSucceeds
    \/ ActionFails
    \/ RecoveryReturns

SpecExec == InitExec /\ [][NextExec]_vars

(***************************************************************************)
(* Properties of execute and the retry.                                    *)
(***************************************************************************)
IsPrefix(a, b) == Len(a) <= Len(b) /\ SubSeq(b, 1, Len(a)) = a

SucceedsAtOnce == <<"attempt", "ok">>

SucceedsAfterRecovery == <<"attempt", "fail", "recovery", "recovered", "attempt", "ok">>

FailsTwice == <<"attempt", "fail", "recovery", "recovered", "attempt", "fail">>

TerminalErrorsSurfaced ==
    ePc \in {"responded", "rejected"} =>
        /\ Len(responses) = 1
        /\ (responses[1] = [status |-> 200, message |-> "OK"])
              = (events # <<>> /\ events[Len(events)] = "ok")
        /\ responses[1].status \in {200, 500}

\* C8 (as claimed): a non-recoverable failure, such as handleAction throwing for
\* an unregistered action name, is terminal after the first attempt: no
\* recovery call and no second attempt.
OnlyRecoverableRetried ==
    reqName \notin KnownActions => (recoveries = 0 /\ attempts <= 1)

\* the ids of the devices of the universe
DeviceIds == {d.id : d \in DeviceUniverse} \ {NoValue}

\* C16: once getDevices has returned, the device of the request is the one
\* getTargetDevice selects from the listed devices; when there is none, or it
\* has no id, execute has responded 500 "No active device found" and has run
\* neither handleAction nor refreshAccess; every call handleAction makes names
\* the id of the selected device and no other device.
NoDeviceNoAction ==
    ePc \in {"attempt", "recovery", "responded"} =>
        LET selected == GetTargetDevice(listedDevices, reqDeviceType)
        IN  /\ device = selected
            /\ (selected = <<>> \/ selected[1].id = NoValue) =>
                  /\ ePc = "responded"
                  /\ responses = <<[status |-> 500, message |-> "No active device found"]>>
                  /\ attempts = 0
                  /\ recoveries = 0
                  /\ events = <<>>
                  /\ spotifyCalls = <<>>
                  /\ logged = <<>>
            /\ (attempts > 0 \/ recoveries > 0 \/ spotifyCalls # <<>>) =>
                  /\ selected # <<>>
                  /\ selected[1].id \in DeviceIds
                  /\ \A i \in 1..Len(spotifyCalls) :
                        Range(spotifyCalls[i].args) \cap DeviceIds = {selected[1].id}

\* C16 witness: two devices are listed, the one selected by its type has no id,
\* the other one has, and execute has responded
NoDeviceNoActionWitness ==
    /\ ePc = "responded"
    /\ Len(listedDevices) = 2
    /\ reqDeviceType = "Speaker"
    /\ listedDevices[1].id = "tv2"
    /\ device # <<>>
    /\ device[1].id = NoValue
    /\ responses = <<[status |-> 500, message |-> "No active device found"]>>

(***************************************************************************)
(* Two runs of startVpnHandler for different utterances, interleaved at    *)
(* their awaits: getLocationVpnFiles, createConnection and                 *)
(* sendToChannelWithResponse. The locals of a run are its own; the runs     *)
(* share the services of the form, of which rabbitService has state.       *)
(***************************************************************************)
\* the arguments a run is called with: the COUNTRY value of its action and its tokens
ConcCalls ==
    {[location |-> tok_France, tokens |-> <<tok_vpn, tok_start, tok_France, tok_paris>>],
     [location |-> tok_France, tokens |-> <<tok_start, tok_vpn>>],
     [location |-> tok_us, tokens |-> <<tok_vpn, tok_us, tok_new, tok_jersey>>],
     [location |-> tok_us, tokens |-> <<tok_us>>]}

\* the listings getDirFiles may return to a run
ConcListings ==
    {<<vpn_france_paris_ovpn, vpn_france_lyon_ovpn, us_new_york_ovpn, us_new_jersey_ovpn>>,
     <<us_new_jersey_ovpn, us_new_york_ovpn, vpn_france_lyon_ovpn, vpn_france_paris_ovpn>>,
     <<vpn_france_lyon_ovpn>>,
     <<>>}

RunVpnFiles_SharedField(vpnFilesOf, listed, r) == vpnFilesOf[listed[Len(listed)]]

\* const vpnFiles: the list the run got from its own getLocationVpnFiles call
RunVpnFiles(vpnFilesOf, listed, r) == vpnFilesOf[r]

InitConc ==
    /\ NarrowIdle
    /\ VpnIdle
    /\ ExecIdle
    /\ WorkerIdle
    /\ DispatchIdle
    /\ StreamsIdle
    /\ \E c1 \in ConcCalls, c2 \in ConcCalls :
          /\ cLocation = <<c1.location, c2.location>>
          /\ cTokens = <<c1.tokens, c2.tokens>>
    /\ cDirFiles = [r \in Runs |-> <<>>]
    /\ cVpnFiles = [r \in Runs |-> <<>>]
    /\ cListed = <<>>
    /\ cFileName = [r \in Runs |-> NULL]
    /\ cConn = "none"
    /\ cConnCalls = 0
    /\ cSent = <<>>
    /\ cPc = [r \in Runs |-> "entry"]

\* the run reads the location from its action and calls getLocationVpnFiles
ConcStart(r) ==
    /\ cPc[r] = "entry"
    /\ cPc' = [cPc EXCEPT ![r] = "listing"]
    /\ UNCHANGED <<cLocation, cTokens, cDirFiles, cVpnFiles, cListed, cFileName, cConn,
                   cConnCalls, cSent, cRest>>

\* getDirFiles returns to the run and getLocationVpnFiles filters the names
ConcListingReturns(r) ==
    /\ cPc[r] = "listing"
    /\ \E dir \in ConcListings :
          /\ cDirFiles' = [cDirFiles EXCEPT ![r] = dir]
          /\ cVpnFiles' = [cVpnFiles EXCEPT ![r] = GetLocationVpnFiles(dir, cLocation[r])]
    /\ cListed' = Append(cListed, r)
    /\ cPc' = [cPc EXCEPT ![r] = "pick"]
    /\ UNCHANGED <<cLocation, cTokens, cFileName, cConn, cConnCalls, cSent, cRest>>

\* getDirFiles fails for the run
ConcListingFails(r) ==
    /\ cPc[r] = "listing"
    /\ cPc' = [cPc EXCEPT ![r] = "failed"]
    /\ UNCHANGED <<cLocation, cTokens, cDirFiles, cVpnFiles, cListed, cFileName, cConn,
                   cConnCalls, cSent, cRest>>

\* the run resumes after getLocationVpnFiles: slice, pickMostPossibleFile, split,
\* and the call of createConnection; with no file picked the split throws
ConcPick(r) ==
    /\ cPc[r] = "pick"
    /\ LET picked == PickMostPossibleFile(RunVpnFiles(cVpnFiles, cListed, r),
                                          TokensAfterLocation(cTokens[r], cLocation[r]))
       IN  IF picked = <<>>
           THEN /\ cPc' = [cPc EXCEPT ![r] = "failed"]
                /\ UNCHANGED <<cFileName, cConnCalls>>
           ELSE /\ cFileName' = [cFileName EXCEPT ![r] = SplitFirst(picked[1])]
                /\ cConnCalls' = cConnCalls + 1
                /\ cPc' = [cPc EXCEPT ![r] = "connecting"]
    /\ UNCHANGED <<cLocation, cTokens, cDirFiles, cVpnFiles, cListed, cConn, cSent, cRest>>

\* createConnection resolves for the run, which calls sendToChannelWithResponse
ConcSend(r) ==
    /\ cPc[r] = "connecting"
    /\ cConn' = "open"
    /\ cSent' = Append(cSent, [run |-> r,
                               channel |-> ConfigGet("Rabbit.AnsibleQueueName"),
                               payload |-> JsonStartPayload(VpnStart, cFileName[r])])
    /\ cPc' = [cPc EXCEPT ![r] = "awaiting"]
    /\ UNCHANGED <<cLocation, cTokens, cDirFiles, cVpnFiles, cListed, cFileName,
                   cConnCalls, cRest>>

\* createConnection rejects for the run
ConcConnectFails(r) ==
    /\ cPc[r] = "connecting"
    /\ cPc' = [cPc EXCEPT ![r] = "failed"]
    /\ UNCHANGED <<cLocation, cTokens, cDirFiles, cVpnFiles, cListed, cFileName, cConn,
                   cConnCalls, cSent, cRest>>

\* sendToChannelWithResponse resolves for the run, or rejects
ConcSendSettles(r) ==
    /\ cPc[r] = "awaiting"
    /\ \E outcome \in {"done", "failed"} : cPc' = [cPc EXCEPT ![r] = outcome]
    /\ UNCHANGED <<cLocation, cTokens, cDirFiles, cVpnFiles, cListed, cFileName, cConn,
                   cConnCalls, cSent, cRest>>

NextConc ==
    \E r \in Runs :
        \/ ConcStart(r)
        \/ ConcListingReturns(r)
        \/ ConcListingFails(r)
        \/ ConcPick(r)
        \/ ConcSend(r)
        \/ ConcConnectFails(r)
        \/ ConcSendSettles(r)

SpecConc == InitConc /\ [][NextConc]_vars

\* the payload startVpnHandler sends when it runs alone with these arguments
\* and this listing
SoloPayload(loc, tokens, dir) ==
    JsonStartPayload(VpnStart,
        SplitFirst(PickMostPossibleFile(GetLocationVpnFiles(dir, loc),
                                        TokensAfterLocation(tokens, loc))[1]))

\* the messages of a run
SentBy(r) == {i \in 1..Len(cSent) : cSent[i].run = r}

\* C14: however two runs of startVpnHandler interleave at their awaits, each
\* message sent is the one its run sends when run alone with the same action
\* value, tokens and listing; a run sends at most one message, exactly one once
\* it has reached the send, and none when run alone it would pick no file.
IndependentRuns ==
    \A r \in Runs :
        /\ Cardinality(SentBy(r)) <= 1
        /\ cPc[r] \in {"awaiting", "done"} => Cardinality(SentBy(r)) = 1
        /\ \A i \in SentBy(r) :
              /\ cSent[i].channel = "AMQP_ANSIBLE_QUEUE_NAME"
              /\ GetLocationVpnFiles(cDirFiles[r], cLocation[r]) # <<>>
              /\ cSent[i].payload = SoloPayload(cLocation[r], cTokens[r], cDirFiles[r])

\* C14 witness: the two runs have different arguments and got different
\* listings, the listing of run 1 returned first, run 2 sent first, both have
\* sent and the two payloads differ
IndependentRunsWitness ==
    /\ cPc = <<"done", "done">>
    /\ cLocation[1] # cLocation[2]
    /\ cDirFiles[1] # cDirFiles[2]
    /\ cListed = <<1, 2>>
    /\ Len(cSent) = 2
    /\ cSent[1].run = 2
    /\ cSent[1].payload # cSent[2].payload

(***************************************************************************)
(* The smart-devices worker: handleQueueMessage, the consumer callback of  *)
(* the queue Rabbit.SmartDevicesQueueName. The callback is async: the      *)
(* handling of one message is suspended at the yeelightService call while  *)
(* the callback is called with the next message.                           *)
(***************************************************************************)
\* the action names the switch has a case for
SmartDevicesActions ==
    {"SetYeelightRandomColor", "SetRandomColorInEveryLight", "TurnOnYeelight",
     "TurnOffYeelight"}

\* the reply queues of the requesters
ReplyQueues == {"reply-a", "reply-b"}

\* the correlation id the requester gave to the message: one per request
CorrelationIdOf(m) == <<"correlation", m>>

\* the messages that may be consumed: args is absent, so the default applies
WorkerInputs(m) ==
    {[name |-> n, replyTo |-> q, correlationId |-> CorrelationIdOf(m)] :
        n \in SmartDevicesActions \cup {"Unknown"}, q \in ReplyQueues}

\* args: { zones, brightness } = { brightness: 100, zones: [] }
DefaultArgs == [brightness |-> 100, zones |-> <<>>]

\* the yeelightService call of the case of the name
YeelightCall(name, args) ==
    CASE name = "SetYeelightRandomColor" ->
            [method |-> "setRandomColor", args |-> <<args.zones>>]
      [] name = "SetRandomColorInEveryLight" ->
            [method |-> "setRandomColorInEveryLight", args |-> <<args.zones>>]
      [] name = "TurnOnYeelight" ->
            [method |-> "setPower", args |-> <<TRUE, args.zones, args.brightness>>]
      [] name = "TurnOffYeelight" ->
            [method |-> "setPower", args |-> <<FALSE, args.zones>>]

HandledMsg_LastConsumed(msgs, last, m) == msgs[last]

\* msg: the parameter of the callback, captured by the handling of the message
HandledMsg(msgs, last, m) == msgs[m]

\* channel.sendToQueue(msg.properties.replyTo, Buffer.from(JSON.stringify({})),
\*                     { correlationId: msg.properties.correlationId })
SendToQueueCall(msg) ==
    [to |-> msg.replyTo, content |-> "{}", correlationId |-> msg.correlationId]

InitWorker ==
    /\ NarrowIdle
    /\ VpnIdle
    /\ ExecIdle
    /\ ConcIdle
    /\ DispatchIdle
    /\ StreamsIdle
    /\ wMsg \in [Msgs -> UNION {WorkerInputs(m) : m \in Msgs}]
    /\ \A m \in Msgs : wMsg[m] \in WorkerInputs(m)
    /\ wPc = [m \in Msgs |-> "queued"]
    /\ wCalls = [m \in Msgs |-> <<>>]
    /\ wWarned = [m \in Msgs |-> <<>>]
    /\ wReplies = [m \in Msgs |-> <<>>]
    /\ wLast = 0

\* the callback is called with the message: parse, then the case of the name up
\* to its await; for an unknown name the warning and the reply follow at once
WorkerConsume(m) ==
    /\ wPc[m] = "queued"
    /\ wLast' = m
    /\ IF wMsg[m].name \in SmartDevicesActions
       THEN /\ wCalls' = [wCalls EXCEPT ![m] = <<YeelightCall(wMsg[m].name, DefaultArgs)>>]
            /\ wPc' = [wPc EXCEPT ![m] = "calling"]
            /\ UNCHANGED <<wWarned, wReplies>>
       ELSE /\ wWarned' = [wWarned EXCEPT ![m] = <<"Unknown action: " \o wMsg[m].name>>]
            /\ wReplies' = [wReplies EXCEPT ![m] =
                               <<SendToQueueCall(HandledMsg(wMsg, wLast', m))>>]
            /\ wPc' = [wPc EXCEPT ![m] = "replied"]
            /\ UNCHANGED wCalls
    /\ UNCHANGED <<wMsg, dvars, wRest>>

\* the callback is called with a message whose content JSON.parse rejects: the
\* handling ends with that error, no call and no reply
WorkerParseFails(m) ==
    /\ wPc[m] = "queued"
    /\ wLast' = m
    /\ wPc' = [wPc EXCEPT ![m] = "crashed"]
    /\ UNCHANGED <<wMsg, wCalls, wWarned, wReplies, dvars, wRest>>

\* the yeelightService call resolves: the handling resumes and sends the reply
WorkerDeviceReturns(m) ==
    /\ wPc[m] = "calling"
    /\ wReplies' = [wReplies EXCEPT ![m] =
                       Append(@, SendToQueueCall(HandledMsg(wMsg, wLast, m)))]
    /\ wPc' = [wPc EXCEPT ![m] = "replied"]
    /\ UNCHANGED <<wMsg, wCalls, wWarned, wLast, dvars, wRest>>

\* the yeelightService call rejects: the handling ends with that error before
\* channel.sendToQueue
WorkerDeviceFails(m) ==
    /\ wPc[m] = "calling"
    /\ wPc' = [wPc EXCEPT ![m] = "crashed"]
    /\ UNCHANGED <<wMsg, wCalls, wWarned, wReplies, wLast, dvars, wRest>>

NextWorker ==
    \E m \in Msgs :
        \/ WorkerConsume(m)
        \/ WorkerParseFails(m)
        \/ WorkerDeviceReturns(m)
        \/ WorkerDeviceFails(m)

SpecWorker == InitWorker /\ [][NextWorker]_vars

\* C15: for every message whose handling got past its yeelightService call,
\* or that has an unknown name, the worker has called channel.sendToQueue
\* exactly once, with the replyTo and the correlationId of that message; no
\* reply exists while the call is pending or when it failed; no reply carries
\* the correlationId of another message.
WorkerReplyCorrelation ==
    \A m \in Msgs :
        /\ wPc[m] \in {"absent", "queued", "calling", "crashed"} => wReplies[m] = <<>>
        /\ wPc[m] = "replied" =>
              /\ wReplies[m] = <<[to |-> wMsg[m].replyTo, content |-> "{}",
                                  correlationId |-> wMsg[m].correlationId]>>
              /\ Len(wCalls[m]) = (IF wMsg[m].name \in SmartDevicesActions THEN 1 ELSE 0)
              /\ Len(wWarned[m]) = (IF wMsg[m].name \in SmartDevicesActions THEN 0 ELSE 1)
        /\ \A k \in Msgs \ {m} : \A i \in 1..Len(wReplies[m]) :
              wReplies[m][i].correlationId # wMsg[k].correlationId

\* C15 witness: two messages with different reply queues are both answered,
\* the first with a known name and the second with an unknown one, and the
\* handling of the first was suspended while the second was consumed
WorkerReplyCorrelationWitness ==
    /\ wPc[1] = "replied"
    /\ wPc[2] = "replied"
    /\ wMsg[1].name = "TurnOnYeelight"
    /\ wMsg[2].name = "Unknown"
    /\ wMsg[1].replyTo # wMsg[2].replyTo
    /\ wLast = 2

(***************************************************************************)
(* One dispatch: a handler opens the connection and calls                  *)
(* sendToChannelWithResponse, the worker consumes the request, and the     *)
(* broker client resolves the call with the correlated response or rejects *)
(* it once its timeout is exceeded.                                        *)
(***************************************************************************)
\* the message of the dispatch
DispatchedMsg == 1

InitDispatch ==
    /\ NarrowIdle
    /\ VpnIdle
    /\ ExecIdle
    /\ ConcIdle
    /\ StreamsIdle
    /\ \E request \in WorkerInputs(DispatchedMsg) :
          wMsg = [m \in Msgs |-> IF m = DispatchedMsg THEN request ELSE NoMsg]
    /\ wPc = [m \in Msgs |-> "absent"]
    /\ wCalls = [m \in Msgs |-> <<>>]
    /\ wWarned = [m \in Msgs |-> <<>>]
    /\ wReplies = [m \in Msgs |-> <<>>]
    /\ wLast = 0
    /\ dPc = "connecting"
    /\ dResponse = <<>>

\* createConnection resolves and sendToChannelWithResponse publishes the
\* request with its replyTo and correlationId; the wait for the response starts
DispatchSends ==
    /\ dPc = "connecting"
    /\ wPc' = [wPc EXCEPT ![DispatchedMsg] = "queued"]
    /\ dPc' = "waiting"
    /\ UNCHANGED <<wMsg, wCalls, wWarned, wReplies, wLast, dResponse, wRest>>

\* createConnection rejects: the handler ends with that error, nothing is sent
DispatchConnectFails ==
    /\ dPc = "connecting"
    /\ dPc' = "failed"
    /\ UNCHANGED <<wvars, dResponse, wRest>>

\* a reply on the reply queue of the request that carries its correlationId
\* resolves the wait
DispatchResponse ==
    /\ dPc = "waiting"
    /\ \E i \in 1..Len(wReplies[DispatchedMsg]) :
          /\ wReplies[DispatchedMsg][i].to = wMsg[DispatchedMsg].replyTo
          /\ wReplies[DispatchedMsg][i].correlationId = wMsg[DispatchedMsg].correlationId
          /\ dResponse' = <<wReplies[DispatchedMsg][i]>>
    /\ dPc' = "responded"
    /\ UNCHANGED <<wvars, wRest>>

DispatchTimeout_Never ==
    /\ dPc = "waiting"
    /\ dPc' = "waiting"
    /\ UNCHANGED <<dResponse, wvars, wRest>>

\* the bounded timeout of the wait is exceeded: the call rejects with a
\* terminal error
DispatchTimeout ==
    /\ dPc = "waiting"
    /\ dPc' = "timedout"
    /\ UNCHANGED <<dResponse, wvars, wRest>>

NextDispatch ==
    \/ DispatchSends
    \/ DispatchConnectFails
    \/ WorkerConsume(DispatchedMsg)
    \/ WorkerParseFails(DispatchedMsg)
    \/ WorkerDeviceReturns(DispatchedMsg)
    \/ WorkerDeviceFails(DispatchedMsg)
    \/ DispatchResponse
    \/ DispatchTimeout

\* the event loops of the two processes run the callbacks that are ready, and the
\* timer of the wait fires if the wait is not over before
SpecDispatch ==
    /\ InitDispatch
    /\ [][NextDispatch]_vars
    /\ WF_vars(NextDispatch)
    /\ WF_vars(DispatchTimeout)

AppleTvPowerStateOn == "PowerState.On"

\* the responses to the power_state command
PowerResponses == {"PowerState.On", "PowerState.Off", "PowerState.Unknown"}

\* the urls openUrl is called with
StreamLinks ==
    {<<"https", ":", "/", "/", "www.youtube.com", "/", "watch", "?", "v", "=", "sFu2l0nz67o">>,
     <<"https", ":", "/", "/", "www.youtube.com", "/", "shorts">>,
     <<"https", ":", "/", "/", "youtu.be", "/", "sFu2l0nz67o", "?", "si", "=", "jpjk">>,
     <<"https", ":", "/", "/", "www.twitch.tv", "/", "channel">>,
     <<"https", ":", "/", "/", "www.twitch.tv">>,
     <<"https", ":", "/", "/", "example.com", "/", "video">>,
     <<"not a url">>}

\* new URL(link) does not throw
IsUrl(link) == Len(link) >= 5 /\ SubSeq(link, 1, 4) = <<"https", ":", "/", "/">>

\* url.hostname
Hostname(link) == link[5]

\* url.pathname.split("/")[1]
PathSegment(link) == IF Len(link) >= 7 /\ link[6] = "/" THEN link[7] ELSE ""

\* url.searchParams.get(key), as a template literal prints it
SearchParam(link, key) ==
    LET at == {i \in 1..Len(link) : link[i] = "?" /\ i + 3 <= Len(link) /\ link[i + 1] = key}
    IN  IF at = {} THEN "null" ELSE link[(CHOOSE i \in at : TRUE) + 3]

\* encodeURIComponent, part by part
EncodeURIComponent(text) ==
    [i \in 1..Len(text) |->
        CASE text[i] = "/" -> "%2F"
          [] text[i] = ":" -> "%3A"
          [] text[i] = "?" -> "%3F"
          [] text[i] = "=" -> "%3D"
          [] OTHER -> text[i]]

\* configService.get of the streams service: its Config has no liveStreamForwarder
StreamsConfigGet(key) ==
    CASE key = "discovery.name" -> "DISCOVERY_NAME"
      [] OTHER -> "undefined"

\* getDeeplinkByURL, for a link new URL accepts
GetDeeplinkByURL(link) ==
    IF Hostname(link) = "www.youtube.com"
    THEN [deeplink |-> <<"youtube", ":", "/", "/", "watch", "/", SearchParam(link, "v")>>,
          provider |-> "youtube"]
    ELSE IF Hostname(link) = "youtu.be"
    THEN [deeplink |-> <<"youtube", ":", "/", "/", "watch", "/", PathSegment(link)>>,
          provider |-> "youtube"]
    ELSE IF Hostname(link) = "www.twitch.tv"
    THEN LET streamUrl == <<StreamsConfigGet("liveStreamForwarder.url"), "/", "live-stream",
                            "/", "stream", "/", "twitch", "/", PathSegment(link)>>
         IN  [deeplink |-> <<StreamsConfigGet("liveStreamForwarder.atvUrl"), "/", "open", "?",
                             "target", "=", "vlc-x-callback", ":", "/", "/",
                             "x-callback-url", "/", "stream", "?", "url", "=">>
                           \o EncodeURIComponent(streamUrl),
              provider |-> "twitch"]
    ELSE [deeplink |-> link, provider |-> "unrecognized"]

\* the command of launchApp(appId)
LaunchCommand(appId) == <<"launch_app", "=">> \o appId

CheckPowerStatus_NotOff(response) == response # "PowerState.Off"

\* checkPowerStatus: response === AppleTvPowerState.On
CheckPowerStatus(response) == response = AppleTvPowerStateOn

InitStreams ==
    /\ NarrowIdle
    /\ VpnIdle
    /\ ExecIdle
    /\ ConcIdle
    /\ WorkerIdle
    /\ DispatchIdle
    /\ sLink \in StreamLinks
    /\ sCommands = <<>>
    /\ sChecks = <<>>
    /\ sDeeplink = <<>>
    /\ sProvider = "undefined"
    /\ sHttp = <<>>
    /\ sLogged = <<>>
    /\ sError = "undefined"
    /\ sPc = "entry"

\* openUrl calls turnOnAppleTv, which calls checkPowerStatus
OpenUrl ==
    /\ sPc = "entry"
    /\ sCommands' = Append(sCommands, <<"power_state">>)
    /\ sPc' = "check"
    /\ UNCHANGED <<sLink, sChecks, sDeeplink, sProvider, sHttp, sLogged, sError, sRest>>

\* the power_state command returns. A first check that is not on sends turn_on;
\* a second one that is not on throws. Once the Apple TV is on turnOnAppleTv
\* returns and openUrl goes on to getDeeplinkByURL, in which new URL may
\* throw, and to openDeeplink up to its first await
PowerStateReturns ==
    /\ sPc = "check"
    /\ \E response \in PowerResponses :
          LET isAppleTvOn == CheckPowerStatus(response)
              first == sChecks = <<>>
              opens == isAppleTvOn /\ IsUrl(sLink)
              found == GetDeeplinkByURL(sLink)
          IN  /\ sChecks' = Append(sChecks, response)
              /\ sDeeplink' = IF opens THEN found.deeplink ELSE sDeeplink
              /\ sProvider' = IF opens THEN found.provider ELSE sProvider
              /\ sCommands' =
                    IF opens /\ found.provider = "youtube"
                    THEN Append(sCommands, LaunchCommand(found.deeplink))
                    ELSE IF opens /\ found.provider = "twitch"
                    THEN Append(sCommands, LaunchCommand(<<"com.celerity.DeepLink">>))
                    ELSE IF ~isAppleTvOn /\ first
                    THEN Append(sCommands, <<"turn_on">>)
                    ELSE sCommands
              /\ sLogged' =
                    IF opens /\ found.provider = "unrecognized"
                    THEN Append(sLogged, <<"Unrecognized provider for deeplink: ">>
                                         \o found.deeplink)
                    ELSE sLogged
              /\ sError' =
                    IF isAppleTvOn /\ ~IsUrl(sLink) THEN "Invalid URL"
                    ELSE IF ~isAppleTvOn /\ ~first THEN "Failed to turn on Apple TV"
                    ELSE sError
              /\ sPc' =
                    IF opens /\ found.provider = "unrecognized" THEN "done"
                    ELSE IF opens THEN "launch"
                    ELSE IF isAppleTvOn THEN "failed"
                    ELSE IF first THEN "turnOn"
                    ELSE "failed"
    /\ UNCHANGED <<sLink, sHttp, sRest>>

\* a pending invokeAction rejects: openUrl rejects with that error
InvokeActionFails ==
    /\ sPc \in {"check", "turnOn", "launch"}
    /\ sError' = "invokeAction failed"
    /\ sPc' = "failed"
    /\ UNCHANGED <<sLink, sCommands, sChecks, sDeeplink, sProvider, sHttp, sLogged, sRest>>

\* the turn_on command returns: wait(5000) starts
TurnOnReturns ==
    /\ sPc = "turnOn"
    /\ sPc' = "wait"
    /\ UNCHANGED <<sLink, sCommands, sChecks, sDeeplink, sProvider, sHttp, sLogged, sError,
                   sRest>>

\* the wait after turn_on is over: the second checkPowerStatus
TurnOnWaitElapsed ==
    /\ sPc = "wait"
    /\ sCommands' = Append(sCommands, <<"power_state">>)
    /\ sPc' = "check"
    /\ UNCHANGED <<sLink, sChecks, sDeeplink, sProvider, sHttp, sLogged, sError, sRest>>

\* the launch_app command returns: for youtube openUrl is done, for twitch
\* wait(5000) starts
LaunchAppReturns ==
    /\ sPc = "launch"
    /\ sPc' = IF sProvider = "twitch" THEN "waitTwitch" ELSE "done"
    /\ UNCHANGED <<sLink, sCommands, sChecks, sDeeplink, sProvider, sHttp, sLogged, sError,
                   sRest>>

\* the wait after the launch of the deeplink app is over: httpClientService.get
TwitchWaitElapsed ==
    /\ sPc = "waitTwitch"
    /\ sHttp' = Append(sHttp, sDeeplink)
    /\ sPc' = "http"
    /\ UNCHANGED <<sLink, sCommands, sChecks, sDeeplink, sProvider, sLogged, sError, sRest>>

\* httpClientService.get resolves, or rejects
HttpGetSettles ==
    /\ sPc = "http"
    /\ \/ sPc' = "done" /\ UNCHANGED sError
       \/ sPc' = "failed" /\ sError' = "http request failed"
    /\ UNCHANGED <<sLink, sCommands, sChecks, sDeeplink, sProvider, sHttp, sLogged, sRest>>

NextStreams ==
    \/ OpenUrl
    \/ PowerStateReturns
    \/ InvokeActionFails
    \/ TurnOnReturns
    \/ TurnOnWaitElapsed
    \/ LaunchAppReturns
    \/ TwitchWaitElapsed
    \/ HttpGetSettles

SpecStreams == InitStreams /\ [][NextStreams]_vars

\* the positions in sCommands of the commands with this first part
CommandsAt(first) == {i \in 1..Len(sCommands) : sCommands[i][1] = first}

\* C17: in a run of openUrl a launch_app command or the HTTP call exists only
\* when the last power_state response of the run is PowerState.On, and every
\* such command comes after all power_state commands; turn_on is sent at most
\* once, as the second command, and only when the first response is not On;
\* there are at most two checks; when the second response is not On the run has
\* failed with "Failed to turn on Apple TV" and has opened nothing.
ApplePowerGating ==
    /\ Len(sChecks) <= 2
    /\ Cardinality(CommandsAt("power_state")) \in {Len(sChecks), Len(sChecks) + 1}
    /\ (CommandsAt("launch_app") # {} \/ sHttp # <<>>) =>
          /\ sChecks # <<>>
          /\ sChecks[Len(sChecks)] = "PowerState.On"
          /\ Cardinality(CommandsAt("power_state")) = Len(sChecks)
          /\ \A i \in CommandsAt("launch_app") : \A j \in CommandsAt("power_state") : j < i
    /\ Cardinality(CommandsAt("turn_on")) <= 1
    /\ CommandsAt("turn_on") # {} =>
          /\ CommandsAt("turn_on") = {2}
          /\ sChecks[1] # "PowerState.On"
    /\ (Len(sChecks) = 2 /\ sChecks[2] # "PowerState.On") =>
          /\ sPc = "failed"
          /\ sError = "Failed to turn on Apple TV"
          /\ CommandsAt("launch_app") = {}
          /\ sHttp = <<>>

\* C17 witness: the first check was Off, turn_on was sent, the second check was
\* On, and the twitch deeplink was opened by launch_app and the HTTP call
ApplePowerGatingWitness ==
    /\ sPc = "done"
    /\ sChecks = <<"PowerState.Off", "PowerState.On">>
    /\ sProvider = "twitch"
    /\ Len(sCommands) = 4
    /\ Len(sHttp) = 1

====
